---- MODULE Spec2Model ----
(***************************************************************************)
(* A model of pycos (src/src/pycos/pycos.py): the paginated listing of     *)
(* COSAdmin.bucket_contents, the endpoint lookup COS.url_from_location and *)
(* the context manager COSReader, each against a model of the collaborator *)
(* it calls (the object store, the discovery endpoint, the local file      *)
(* system).                                                                *)
(***************************************************************************)
EXTENDS Integers, Sequences, FiniteSets, TLC

VARIABLES
    \* ---- COSAdmin.bucket_contents and the object store it lists ----
    objs,          \* the bucket's objects, in the order the service lists them
    stuck,         \* the service reports IsTruncated on every page (a defect)
    max_keys,      \* argument of bucket_contents
    lpc,           \* "idle" | "loop" | "returned" | "raised"
    more_results,  \* local of bucket_contents
    next_token,    \* local of bucket_contents: <<>> is "", <<i>> a service token
    files,         \* local of bucket_contents: the accumulated entries
    responses,     \* history: the responses received, in order
    requests,      \* history: number of list_objects_v2 requests issued
    sawFinal,      \* history: a response with IsTruncated = FALSE was received
    lateRequest,   \* history: a request was issued after such a response
    \* ---- COS.url_from_location and the discovery endpoint ----
    regional,      \* jsn['service-endpoints']['regional']: the (location, type) pairs it holds
    url_type,      \* argument of url_from_location: a string, as its characters
    location,      \* argument of url_from_location
    upc,           \* "idle" | "check" | "fetch" | "extract" | "done"
    http_calls,    \* history: number of requests.get calls made
    uresult,       \* what the call gave: [kind |-> "pending" | "None" | "url" | "raised"]
    \* ---- COSReader, the local file system and the remote bucket ----
    dirs,          \* the local directories that exist (paths)
    localFiles,    \* the local files that exist (paths)
    remote,        \* the keys the remote bucket holds
    readers,       \* per instance: made, key, dir, tmp, open_file (0 is None), scope
    handles,       \* the file objects open() has returned: "open" | "closed"
    last           \* history: the last COSReader operation and how it ended

listVars == <<objs, stuck, max_keys, lpc, more_results, next_token, files,
              responses, requests, sawFinal, lateRequest>>

urlVars == <<regional, url_type, location, upc, http_calls, uresult>>

readerVars == <<dirs, localFiles, remote, readers, handles, last>>

vars == <<listVars, urlVars, readerVars>>

\* ------------------------------------------------------------------ bounds
MaxObjects == 3
MaxKeys == 3
MaxRequests == 6

ObjectKeys == {"a", "b", "c", "d"}

Min(a, b) == IF a < b THEN a ELSE b

\* The concatenation of the pages of a sequence of responses.
RECURSIVE Flatten(_)
Flatten(rs) == IF rs = <<>> THEN <<>> ELSE Head(rs).Contents \o Flatten(Tail(rs))

\* All listings of at most MaxObjects distinct keys.
Listings ==
    UNION { { s \in [1..n -> ObjectKeys] : \A i, j \in 1..n : i # j => s[i] # s[j] }
            : n \in 0..Min(MaxObjects, Cardinality(ObjectKeys)) }

\* ----------------------------------------------- the service: list_objects_v2
\* The position a continuation token stands for; "" is the start.
TokenOffset(token) == IF token = <<>> THEN 0 ELSE token[1]

\* One page of the listing: k entries from the token's position on.
\* IsTruncated iff entries remain after the page (always, on a stuck service).
ListResponse(token, k) ==
    LET start == TokenOffset(token)
        stop  == start + k
    IN  [ Contents  |-> SubSeq(objs, start + 1, stop),
          IsTruncated |-> stuck \/ stop < Len(objs),
          NextContinuationToken |-> <<stop>> ]

\* The page sizes the service may deliver for a request: at least one entry
\* while entries remain, never more than MaxKeys=max_keys.
PageSizes(token, mk) ==
    LET remaining == Len(objs) - TokenOffset(token)
    IN  IF remaining = 0 THEN {0} ELSE 1..Min(mk, remaining)

\* ------------------------------------------------ COSAdmin.bucket_contents
\* files += batch
AccumulateOverwrite(fs, batch) == batch
Accumulate(fs, batch) == fs \o batch

\* if response["IsTruncated"]: ... else: more_results = False
ContinueAlways(response) == TRUE
ContinueAfter(response) == response.IsTruncated

\* next_token = response["NextContinuationToken"] / next_token = ""
TokenAfter(response) ==
    IF response.IsTruncated THEN response.NextContinuationToken ELSE <<>>

\* Lines 102-105: the call and the initialisation of the locals.
bucket_contents(mk) ==
    /\ lpc = "idle"
    /\ max_keys' = mk
    /\ more_results' = TRUE
    /\ next_token' = <<>>
    /\ files' = <<>>
    /\ lpc' = "loop"
    /\ UNCHANGED <<objs, stuck, responses, requests, sawFinal, lateRequest>>
    /\ UNCHANGED <<urlVars, readerVars>>

Bump(n) == IF n < MaxRequests THEN n + 1 ELSE n

\* Lines 106-119: one iteration of the loop, its request answered with a page.
ListPage ==
    /\ lpc = "loop"
    /\ more_results
    /\ \E k \in PageSizes(next_token, max_keys) :
         LET response == ListResponse(next_token, k)
         IN  /\ files' = Accumulate(files, response.Contents)
             /\ more_results' = ContinueAfter(response)
             /\ next_token' = TokenAfter(response)
             /\ responses' = IF Len(responses) < MaxRequests
                               THEN Append(responses, response) ELSE responses
             /\ sawFinal' = (sawFinal \/ ~response.IsTruncated)
    /\ requests' = Bump(requests)
    /\ lateRequest' = (lateRequest \/ sawFinal)
    /\ UNCHANGED <<objs, stuck, max_keys, lpc>>
    /\ UNCHANGED <<urlVars, readerVars>>

\* Lines 107-110: the request raises (ClientError); nothing catches it.
ListPageFails ==
    /\ lpc = "loop"
    /\ more_results
    /\ requests' = Bump(requests)
    /\ lateRequest' = (lateRequest \/ sawFinal)
    /\ lpc' = "raised"
    /\ UNCHANGED <<objs, stuck, max_keys, more_results, next_token, files,
                   responses, sawFinal>>
    /\ UNCHANGED <<urlVars, readerVars>>

\* Lines 106, 121: the loop condition is false; return files.
ReturnFiles ==
    /\ lpc = "loop"
    /\ ~more_results
    /\ lpc' = "returned"
    /\ UNCHANGED <<objs, stuck, max_keys, more_results, next_token, files,
                   responses, requests, sawFinal, lateRequest>>
    /\ UNCHANGED <<urlVars, readerVars>>

ReaderIdle ==
    /\ dirs = {<<"/">>, <<"/", "tmp">>}
    /\ localFiles = {}
    /\ remote = {}
    /\ readers = <<>>
    /\ handles = <<>>
    /\ last = [op |-> "none"]

UrlIdle ==
    /\ regional = {}
    /\ url_type = <<>>
    /\ location = "us-south"
    /\ upc = "idle"
    /\ http_calls = 0
    /\ uresult = [kind |-> "pending"]

InitList ==
    /\ UrlIdle
    /\ ReaderIdle
    /\ objs \in Listings
    /\ stuck \in BOOLEAN
    /\ max_keys = 1
    /\ lpc = "idle"
    /\ more_results = FALSE
    /\ next_token = <<>>
    /\ files = <<>>
    /\ responses = <<>>
    /\ requests = 0
    /\ sawFinal = FALSE
    /\ lateRequest = FALSE

NextList ==
    \/ \E mk \in 1..MaxKeys : bucket_contents(mk)
    \/ ListPage
    \/ ListPageFails
    \/ ReturnFiles

SpecList == InitList /\ [][NextList]_vars

\* The interpreter keeps running the loop: an iteration that can run does,
\* and so does the return.
LiveList == SpecList /\ WF_vars(ListPage) /\ WF_vars(ReturnFiles)

\* ------------------------------------------------------------ claims: listing
\* C1: pagination transparency. The accumulated entries are at every moment
\* the concatenation of the pages delivered so far, in delivery order, and the
\* value returned is the bucket's whole listing (N entries, none dropped,
\* duplicated or re-ordered), whatever max_keys and whatever page sizes the
\* service chose.
C1_PaginationTransparent ==
    /\ lpc \in {"loop", "returned"} => files = Flatten(responses)
    /\ lpc = "returned" => (files = objs /\ Len(files) = Len(objs))

C1_Witness ==
    /\ lpc = "returned"
    /\ Len(objs) = 3
    /\ Len(responses) >= 2
    /\ max_keys = 2

\* C6: no page request is issued after a response with IsTruncated = FALSE;
\* when the first response is not truncated the call returns that page's
\* entries unchanged after exactly one request.
C6_NoRequestAfterFinal ==
    /\ ~lateRequest
    /\ (lpc = "returned" /\ ~responses[1].IsTruncated) =>
          (requests = 1 /\ files = responses[1].Contents)

C6_Witness ==
    /\ lpc = "returned"
    /\ requests = 1
    /\ files = <<"a", "b", "c">>
    /\ max_keys = 3

\* C8: on a service that does not report truncation forever, a running call
\* eventually returns or raises.
C8_Terminates ==
    (lpc = "loop" /\ ~stuck) ~> (lpc \in {"returned", "raised"})

C8_Witness ==
    /\ ~stuck
    /\ lpc = "returned"
    /\ requests = 3

\* C8, the other direction: the loop goes on only against a stuck service.
C8_WitnessStuck ==
    /\ stuck
    /\ lpc = "loop"
    /\ requests = MaxRequests

\* ------------------------------------------------------ COS.url_from_location
\* Strings the code converts are sequences of characters.
public  == <<"p", "u", "b", "l", "i", "c">>
private == <<"p", "r", "i", "v", "a", "t", "e">>
direct  == <<"d", "i", "r", "e", "c", "t">>

\* The url_type arguments tried: the three literals, case variants of them,
\* and strings that are none of them in any case.
UrlTypeInputs ==
    { public, private, direct,
      <<"P", "U", "B", "L", "I", "C">>,
      <<"P", "r", "i", "v", "a", "t", "e">>,
      <<"d", "i", "r", "e", "c", "T">>,
      <<"p", "u", "b">>,
      <<"i", "n", "t", "e", "r", "n", "a", "l">>,
      <<>> }

Locations == {"us-south", "eu-gb"}

\* str.lower(), character by character.
LowerChar(c) ==
    CASE c = "A" -> "a" [] c = "B" -> "b" [] c = "C" -> "c" [] c = "D" -> "d"
      [] c = "E" -> "e" [] c = "I" -> "i" [] c = "L" -> "l" [] c = "P" -> "p"
      [] c = "R" -> "r" [] c = "T" -> "t" [] c = "U" -> "u" [] c = "V" -> "v"
      [] OTHER -> c

Lower(str) == [i \in DOMAIN str |-> LowerChar(str[i])]

\* Line 65: url_type.lower() in ('public', 'private', 'direct')
RecognizedAny(t) == TRUE
Recognized(t) == Lower(t) \in {public, private, direct}

\* The discovery documents served: every location with the three types, one
\* location only, or nothing regional.
RegionalTables ==
    { Locations \X {public, private, direct},
      {"us-south"} \X {public, private, direct},
      {} }

\* The host the discovery document holds for a pair.
Host(loc, t) == <<"host", loc, t>>

\* Line 61: the call.
url_from_location(t, loc) ==
    /\ upc = "idle"
    /\ url_type' = t
    /\ location' = loc
    /\ upc' = "check"
    /\ UNCHANGED <<regional, http_calls, uresult>>
    /\ UNCHANGED <<listVars, readerVars>>

\* Lines 65-66: an unrecognized url_type returns None.
CheckUrlType ==
    /\ upc = "check"
    /\ IF Recognized(url_type)
         THEN upc' = "fetch" /\ UNCHANGED uresult
         ELSE upc' = "done" /\ uresult' = [kind |-> "None"]
    /\ UNCHANGED <<regional, url_type, location, http_calls>>
    /\ UNCHANGED <<listVars, readerVars>>

\* Lines 68-69: requests.get and rsp.json(); either may raise.
FetchEndpoints ==
    /\ upc = "fetch"
    /\ http_calls' = http_calls + 1
    /\ \E ok \in BOOLEAN :
         IF ok THEN upc' = "extract" /\ UNCHANGED uresult
               ELSE upc' = "done" /\ uresult' = [kind |-> "raised"]
    /\ UNCHANGED <<regional, url_type, location>>
    /\ UNCHANGED <<listVars, readerVars>>

\* Lines 71-74: the lookup by location and by url_type as given, and the prefix.
ExtractUrl ==
    /\ upc = "extract"
    /\ IF <<location, url_type>> \in regional
         THEN uresult' = [kind |-> "url",
                          value |-> <<"https://">> \o Host(location, url_type)]
         ELSE uresult' = [kind |-> "raised"]
    /\ upc' = "done"
    /\ UNCHANGED <<regional, url_type, location, http_calls>>
    /\ UNCHANGED <<listVars, readerVars>>

ListIdle ==
    /\ objs = <<>>
    /\ stuck = FALSE
    /\ max_keys = 1
    /\ lpc = "idle"
    /\ more_results = FALSE
    /\ next_token = <<>>
    /\ files = <<>>
    /\ responses = <<>>
    /\ requests = 0
    /\ sawFinal = FALSE
    /\ lateRequest = FALSE

InitUrl ==
    /\ ListIdle
    /\ ReaderIdle
    /\ regional \in RegionalTables
    /\ url_type = <<>>
    /\ location = "us-south"
    /\ upc = "idle"
    /\ http_calls = 0
    /\ uresult = [kind |-> "pending"]

NextUrl ==
    \/ \E t \in UrlTypeInputs, loc \in Locations : url_from_location(t, loc)
    \/ CheckUrlType
    \/ FetchEndpoints
    \/ ExtractUrl

SpecUrl == InitUrl /\ [][NextUrl]_vars

\* ---------------------------------------------------- claims: url_from_location
\* C5 as stated: every url_type that is not exactly 'public', 'private' or
\* 'direct' (case variants included) gives None and no HTTP request.
C5_ExactMatchOnly ==
    (upc # "idle" /\ url_type \notin {public, private, direct}) =>
        /\ http_calls = 0
        /\ upc = "done" => uresult.kind = "None"

\* C5 as amended: every url_type whose lower-cased form is not 'public',
\* 'private' or 'direct' gives None and no HTTP request; no request is made
\* before the check.
C5_LowerCasedMatch ==
    /\ upc = "check" => http_calls = 0
    /\ (upc # "idle" /\ Lower(url_type) \notin {public, private, direct}) =>
          /\ http_calls = 0
          /\ upc \in {"check", "done"}
          /\ upc = "done" => uresult.kind = "None"

C5_Witness ==
    /\ upc = "done"
    /\ url_type = <<"i", "n", "t", "e", "r", "n", "a", "l">>
    /\ uresult.kind = "None"
    /\ http_calls = 0

\* ------------------------------------------------------------------ COSReader
MaxOpens == 3

Readers == {"r1", "r2"}

\* Paths and keys are strings, held as their pieces with "/" a piece of its own.
TmpRoot == <<"/", "tmp">>
DirNames == {"t1", "t2"}

\* The keys readers are made for: plain, absent from the bucket, with a
\* prefix, and starting with a slash.
KeyInputs == { <<"a">>, <<"b">>, <<"d", "/", "a">>, <<"/", "x">> }
RemoteKeys == { <<"a">>, <<"d", "/", "a">>, <<"/", "x">> }

\* os.path.join(a, b): an absolute b replaces a.
Join(a, b) ==
    IF b # <<>> /\ b[1] = "/" THEN b
    ELSE IF a = <<>> \/ a[Len(a)] = "/" THEN a \o b
    ELSE a \o <<"/">> \o b

\* The directory a path lies in.
Dirname(path) ==
    LET idx == CHOOSE i \in 1..Len(path) :
                   path[i] = "/" /\ \A j \in (i + 1)..Len(path) : path[j] # "/"
    IN  IF idx = 1 THEN <<"/">> ELSE SubSeq(path, 1, idx - 1)

\* tempfile.mkdtemp(): the directories after it has made directory d.
MkdtempNoDirectory(ds, d) == ds
MkdtempDirs(ds, d) == ds \cup {d}

NoReader ==
    [made |-> FALSE, key |-> <<>>, dir |-> <<>>, tmp |-> <<>>,
     open_file |-> 0, scope |-> FALSE]

NoLast ==
    [op |-> "none", r |-> "none", outcome |-> "none", scoped |-> FALSE,
     raising |-> FALSE, remove |-> "none"]

\* Lines 150-156: COSReader.__init__. mkdtemp makes a fresh directory; the path
\* is it joined with the key. Creating the client makes no request.
COSReader(r, key) ==
    /\ ~readers[r].made
    /\ \E name \in DirNames :
         LET d == TmpRoot \o <<"/", name>>
         IN  /\ d \notin dirs
             /\ dirs' = MkdtempDirs(dirs, d)
             /\ readers' = [readers EXCEPT ![r] =
                   [made |-> TRUE, key |-> key, dir |-> d, tmp |-> Join(d, key),
                    open_file |-> 0, scope |-> FALSE]]
    /\ last' = [NoLast EXCEPT !.op = "init", !.r = r, !.outcome = "ok"]
    /\ UNCHANGED <<localFiles, remote, handles>>
    /\ UNCHANGED <<listVars, urlVars>>

\* download_file succeeds when the bucket holds the key and the directory of
\* the local path exists.
CanDownload(key, tmp) == key \in remote /\ Dirname(tmp) \in dirs

\* Lines 140-144: COSReader.__enter__, the download raising.
EnterDownloadFails(r) ==
    /\ readers[r].made
    /\ last' = [NoLast EXCEPT !.op = "enter", !.r = r, !.outcome = "download_error"]
    /\ UNCHANGED <<dirs, localFiles, remote, readers, handles>>
    /\ UNCHANGED <<listVars, urlVars>>

\* Lines 140-144: COSReader.__enter__, the download done and open() raising.
EnterOpenFails(r) ==
    /\ readers[r].made
    /\ CanDownload(readers[r].key, readers[r].tmp)
    /\ localFiles' = localFiles \cup {readers[r].tmp}
    /\ last' = [NoLast EXCEPT !.op = "enter", !.r = r, !.outcome = "open_error"]
    /\ UNCHANGED <<dirs, remote, readers, handles>>
    /\ UNCHANGED <<listVars, urlVars>>

\* Lines 140-144: COSReader.__enter__, download and open both done.
Enter(r) ==
    /\ readers[r].made
    /\ Len(handles) < MaxOpens
    /\ CanDownload(readers[r].key, readers[r].tmp)
    /\ localFiles' = localFiles \cup {readers[r].tmp}
    /\ handles' = Append(handles, "open")
    /\ readers' = [readers EXCEPT ![r].open_file = Len(handles) + 1,
                                  ![r].scope = TRUE]
    /\ last' = [NoLast EXCEPT !.op = "enter", !.r = r, !.outcome = "ok"]
    /\ UNCHANGED <<dirs, remote>>
    /\ UNCHANGED <<listVars, urlVars>>

\* self.open_file.close() having succeeded.
CloseHandleNoop(hs, h) == hs
CloseHandle(hs, h) == [hs EXCEPT ![h] = "closed"]

\* Lines 146-148: COSReader.__exit__ on an instance whose open_file is None:
\* None has no close().
ExitUnopened(r, raising) ==
    /\ readers[r].made
    /\ readers[r].open_file = 0
    /\ last' = [NoLast EXCEPT !.op = "exit", !.r = r, !.outcome = "attribute_error",
                              !.scoped = readers[r].scope, !.raising = raising,
                              !.remove = "not_attempted"]
    /\ UNCHANGED <<dirs, localFiles, remote, readers, handles>>
    /\ UNCHANGED <<listVars, urlVars>>

\* Lines 146-148: COSReader.__exit__, close() raising: os.remove is not reached.
\* The file object may be left open or closed.
ExitCloseFails(r, raising) ==
    /\ readers[r].made
    /\ readers[r].open_file # 0
    /\ handles[readers[r].open_file] = "open"
    /\ \E after \in {"open", "closed"} :
         handles' = [handles EXCEPT ![readers[r].open_file] = after]
    /\ readers' = [readers EXCEPT ![r].scope = FALSE]
    /\ last' = [NoLast EXCEPT !.op = "exit", !.r = r, !.outcome = "close_error",
                              !.scoped = readers[r].scope, !.raising = raising,
                              !.remove = "not_attempted"]
    /\ UNCHANGED <<dirs, localFiles, remote>>
    /\ UNCHANGED <<listVars, urlVars>>

\* Lines 146-148: COSReader.__exit__, close() done (a no-op on a closed file
\* object), then os.remove, which raises when the file is not there.
Exit(r, raising) ==
    /\ readers[r].made
    /\ readers[r].open_file # 0
    /\ handles' = CloseHandle(handles, readers[r].open_file)
    /\ readers' = [readers EXCEPT ![r].scope = FALSE]
    /\ IF readers[r].tmp \in localFiles
         THEN /\ localFiles' = localFiles \ {readers[r].tmp}
              /\ last' = [NoLast EXCEPT !.op = "exit", !.r = r, !.outcome = "ok",
                              !.scoped = readers[r].scope, !.raising = raising,
                              !.remove = "removed"]
         ELSE /\ localFiles' = localFiles
              /\ last' = [NoLast EXCEPT !.op = "exit", !.r = r,
                              !.outcome = "remove_error",
                              !.scoped = readers[r].scope, !.raising = raising,
                              !.remove = "missing"]
    /\ UNCHANGED <<dirs, remote>>
    /\ UNCHANGED <<listVars, urlVars>>

InitReader ==
    /\ ListIdle
    /\ UrlIdle
    /\ dirs = {<<"/">>, TmpRoot}
    /\ localFiles = {}
    /\ remote = RemoteKeys
    /\ readers = [r \in Readers |-> NoReader]
    /\ handles = <<>>
    /\ last = NoLast

NextReader ==
    \/ \E r \in Readers, key \in KeyInputs : COSReader(r, key)
    \/ \E r \in Readers : EnterDownloadFails(r)
    \/ \E r \in Readers : EnterOpenFails(r)
    \/ \E r \in Readers : Enter(r)
    \/ \E r \in Readers, raising \in BOOLEAN : Exit(r, raising)
    \/ \E r \in Readers, raising \in BOOLEAN : ExitCloseFails(r, raising)
    \/ \E r \in Readers, raising \in BOOLEAN : ExitUnopened(r, raising)

SpecReader == InitReader /\ [][NextReader]_vars

\* The state of an instance, read off its open_file.
ReaderState(rs, hs, r) ==
    IF rs[r].open_file = 0 THEN "Unopened"
    ELSE IF hs[rs[r].open_file] = "open" THEN "Open"
    ELSE "Closed"

\* -------------------------------------------------------------- claims: reader
\* C2 as stated: every exit from a scope that was entered successfully, body
\* raising or not, leaves the temp file absent and the file handle closed.
C2_ScopeExitCleansUp ==
    (last.op = "exit" /\ last.scoped) =>
        /\ readers[last.r].tmp \notin localFiles
        /\ handles[readers[last.r].open_file] = "closed"

\* C2 apart from a failing close(): every other exit from an entered scope
\* leaves the temp file absent and the handle closed.
C2_HoldsWhenCloseSucceeds ==
    (last.op = "exit" /\ last.scoped /\ last.outcome # "close_error") =>
        /\ readers[last.r].tmp \notin localFiles
        /\ handles[readers[last.r].open_file] = "closed"

\* C3 as stated: when close() fails on exit, removal of the temp file is still
\* attempted and the file is gone when the failure reaches the caller.
C3_RemoveDespiteCloseFailure ==
    (last.op = "exit" /\ last.outcome = "close_error") =>
        /\ last.remove # "not_attempted"
        /\ readers[last.r].tmp \notin localFiles

\* C4 as stated: when the download fails on enter, the instance is not Open,
\* and its temp directory and any file at its temp path are gone when the
\* error reaches the caller.
C4_DownloadFailureCleansUp ==
    (last.op = "enter" /\ last.outcome = "download_error") =>
        /\ ReaderState(readers, handles, last.r) # "Open"
        /\ readers[last.r].dir \notin dirs
        /\ readers[last.r].tmp \notin localFiles

\* C7 as stated: any two instances have distinct local temp paths, whatever
\* their keys.
C7_DistinctTempPaths ==
    \A r1, r2 \in Readers :
        (r1 # r2 /\ readers[r1].made /\ readers[r2].made) =>
            readers[r1].tmp # readers[r2].tmp

\* C9 as stated: an instance moves only Unopened -> Open -> Closed, and Closed
\* is terminal.
C9_ClosedIsTerminal ==
    [][\A r \in Readers :
          LET before == ReaderState(readers, handles, r)
              after  == ReaderState(readers', handles', r)
          IN  /\ before = "Closed" => after = "Closed"
              /\ before = "Open" => after \in {"Open", "Closed"}
              /\ before = "Unopened" => after \in {"Unopened", "Open"}]_vars

\* C9 as amended: an instance leaves Unopened only by a successful enter, to
\* Open; it reaches Closed only from Open, by an exit; it never returns to
\* Unopened; a successful enter always leaves it Open, also from Closed (Closed
\* is not terminal); an exit whose close succeeds leaves it Closed; an exit
\* applied to an Unopened instance raises and changes nothing.
C9_ReopenableStateMachine ==
    [][\A r \in Readers :
          LET before == ReaderState(readers, handles, r)
              after  == ReaderState(readers', handles', r)
              entered == last'.op = "enter" /\ last'.r = r /\ last'.outcome = "ok"
              exited == last'.op = "exit" /\ last'.r = r
          IN  /\ after = "Unopened" => before = "Unopened"
              /\ (before = "Unopened" /\ after # "Unopened") =>
                    (after = "Open" /\ entered)
              /\ (before # "Closed" /\ after = "Closed") =>
                    (before = "Open" /\ exited)
              /\ (before = "Closed" /\ after # "Closed") => (after = "Open" /\ entered)
              /\ entered => (after = "Open" /\ readers'[r].tmp \in localFiles')
              /\ (exited /\ last'.outcome \in {"ok", "remove_error"}) =>
                    after = "Closed"
              /\ (exited /\ before = "Unopened") =>
                    /\ last'.outcome = "attribute_error"
                    /\ UNCHANGED <<dirs, localFiles, remote, readers, handles>>]_vars

\* An instance that was opened, closed and opened again.
C9_Witness ==
    \E r \in Readers :
        /\ \A o \in Readers \ {r} : ~readers[o].made
        /\ handles = <<"closed", "open">>
        /\ readers[r].open_file = 2
        /\ last.op = "enter" /\ last.outcome = "ok"

\* C10 as stated: constructing an instance leaves the local file system and
\* the remote bucket as they were.
C10_ConstructionNoIO ==
    [][\A r \in Readers :
          (~readers[r].made /\ readers'[r].made) =>
              /\ dirs' = dirs
              /\ localFiles' = localFiles
              /\ remote' = remote]_vars

\* C10 as amended: constructing an instance makes exactly one new, empty
\* directory (mkdtemp) and nothing else: no file is created, no file object is
\* opened and the remote bucket is as it was.
C10_ConstructionMakesOnlyTempDir ==
    [][\A r \in Readers :
          (~readers[r].made /\ readers'[r].made) =>
              /\ readers'[r].dir \notin dirs
              /\ dirs' = dirs \cup {readers'[r].dir}
              /\ \A f \in localFiles' : Dirname(f) # readers'[r].dir
              /\ localFiles' = localFiles
              /\ handles' = handles
              /\ remote' = remote
              /\ readers'[r].open_file = 0]_vars

\* Both instances made, nothing entered yet.
C10_Witness ==
    /\ \A r \in Readers : readers[r].made
    /\ last.op = "init"
    /\ Cardinality(dirs) = 4
    /\ localFiles = {}
    /\ handles = <<>>

====
